---- MODULE Spec2Model ----
(***************************************************************************)
(* Model of src/make_ensembles.py: the ensemble pipelines                  *)
(* make_demographic_ensembles and make_voting_ensembles.                   *)
(*                                                                         *)
(* The pipelines drive the gerrychain package (recursive_tree_part,        *)
(* Partition, Tally, cut_edges, recom, within_percent_of_ideal_population, *)
(* MarkovChain); each of those calls is modelled at the place the source   *)
(* makes it, with the arguments the source passes.                         *)
(*                                                                         *)
(* Numbers that the source computes in floating point are kept exact:      *)
(* a quotient a/b is the record [num |-> a, den |-> b].                    *)
(***************************************************************************)
EXTENDS Integers, Sequences, FiniteSets, TLC

(***************************************************************************)
(* Bounds of the model.                                                    *)
(***************************************************************************)
\* the largest value of the parameter `steps`
MaxSteps == 3
\* the most candidates in a row that one chain step sees rejected
MaxRejects == 1
\* the largest value of `steps` when the chains of both seeds of a region are walked
MaxRegionSteps == 2

(***************************************************************************)
(* The dual graph of California, cut down to fourteen units in six         *)
(* counties: NorCal is a path of four units, Cal a triangle with a pendant *)
(* unit, SoCal a path of six units.  Edges are sorted pairs, as cut_edges  *)
(* stores them.                                                            *)
(***************************************************************************)
graph_california_nodes == 1..14

graph_california_edges ==
    { <<1, 2>>, <<2, 3>>, <<3, 4>>,
      <<5, 6>>, <<5, 7>>, <<6, 7>>, <<7, 8>>,
      <<9, 10>>, <<10, 11>>, <<11, 12>>, <<12, 13>>, <<13, 14>>,
      <<4, 5>>, <<8, 9>> }

\* the COUNTYFP column of the merged data
COUNTYFP(node) ==
    IF node <= 2 THEN "001"
    ELSE IF node <= 4 THEN "075"
    ELSE IF node <= 6 THEN "037"
    ELSE IF node <= 8 THEN "111"
    ELSE IF node <= 11 THEN "073"
    ELSE "059"

fips_cal == {"069", "053", "079", "083", "111", "037"}

fips_socal == {"051", "039", "019", "107", "027", "029", "071", "065", "059", "073", "025"}

fips_norcal ==
    { COUNTYFP(node) : node \in graph_california_nodes } \ (fips_cal \cup fips_socal)

Regions == <<"norcal", "cal", "socal">>

fips(region) ==
    CASE region = "norcal" -> fips_norcal
      [] region = "cal" -> fips_cal
      [] region = "socal" -> fips_socal

\* nx.subgraph(graph_california, [nodes whose COUNTYFP is in fips])
graph_nodes(region) ==
    { node \in graph_california_nodes : COUNTYFP(node) \in fips(region) }

graph_edges(region) ==
    { e \in graph_california_edges :
        e[1] \in graph_nodes(region) /\ e[2] \in graph_nodes(region) }

(***************************************************************************)
(* Node attributes of the two data sets (tract level: total_pop,           *)
(* hispanic_latino_pop; precinct level: total_votes, democrat_votes,       *)
(* republican_votes), indexed by node.  The values put the cases of the    *)
(* statistics on the graph: districts at 50 and at 51 of 100, districts    *)
(* won 60 to 40 of 100 by either category, tied districts, districts in    *)
(* which other votes keep both categories below half, and in SoCal         *)
(* districts on both ends of the population band.  The last unit of SoCal  *)
(* has nobody in it: no residents and no votes.                            *)
(***************************************************************************)
total_pop == <<50, 50, 50, 50, 50, 50, 1, 101, 98, 4, 98, 2, 98, 0>>

hispanic_latino_pop == <<30, 20, 31, 20, 25, 25, 0, 51, 50, 1, 49, 1, 60, 0>>

total_votes == <<50, 50, 50, 50, 50, 50, 1, 101, 73, 2, 73, 1, 73, 0>>

democrat_votes == <<20, 20, 25, 25, 30, 30, 0, 50, 40, 0, 30, 1, 45, 0>>

republican_votes == <<30, 30, 25, 25, 20, 20, 0, 50, 30, 2, 37, 0, 20, 0>>

NodeAttr(key) ==
    CASE key = "total_pop" -> total_pop
      [] key = "hispanic_latino_pop" -> hispanic_latino_pop
      [] key = "total_votes" -> total_votes
      [] key = "democrat_votes" -> democrat_votes
      [] key = "republican_votes" -> republican_votes

Pipelines == {"demographic", "voting"}

\* totpop_key of __random_partitions, pop_col of recom
totpop_key(pipeline) ==
    IF pipeline = "demographic" THEN "total_pop" ELSE "total_votes"

\* pop_key of within_percent_of_ideal_population
pop_key(pipeline) ==
    IF pipeline = "demographic" THEN "district_totpop" ELSE "district_totvotes"

\* the Tally updaters: alias |-> node attribute
my_updaters(pipeline) ==
    IF pipeline = "demographic"
    THEN [ district_totpop |-> "total_pop",
           district_hispanic_latino_pop |-> "hispanic_latino_pop" ]
    ELSE [ district_totvotes |-> "total_votes",
           district_democrat_votes |-> "democrat_votes",
           district_republican_votes |-> "republican_votes" ]

\* a tolerance of 1: the band reaches down to 0
pop_tolerance_one == [num |-> 1, den |-> 1]

\* pop_tolerance = 0.02
pop_tolerance == [num |-> 2, den |-> 100]

RECURSIVE SumOver(_, _)
\* sum([graph.nodes()[node][key] for node in nodes])
SumOver(attr, nodes) ==
    IF nodes = {} THEN 0
    ELSE LET n == CHOOSE x \in nodes : TRUE
         IN attr[n] + SumOver(attr, nodes \ {n})

totpop(pipeline, region) ==
    SumOver(NodeAttr(totpop_key(pipeline)), graph_nodes(region))

\* num_districts_norcal, num_districts_cal, num_districts_socal: the regions
\* of this graph are cut into 2, 2 and 3 districts
num_districts(region) ==
    CASE region = "norcal" -> 2
      [] region = "cal" -> 2
      [] region = "socal" -> 3

\* idealpop = totpop / num_districts
idealpop(pipeline, region) ==
    [num |-> totpop(pipeline, region), den |-> num_districts(region)]

(***************************************************************************)
(* Graph helpers.                                                          *)
(***************************************************************************)
\* graph.subgraph(nodes).edges
subgraph_edges(edges, nodes) ==
    { e \in edges : e[1] \in nodes /\ e[2] \in nodes }

RECURSIVE Reach(_, _)
\* the nodes reachable from the set `seen` along `edges`
Reach(seen, edges) ==
    LET more == { e[2] : e \in { d \in edges : d[1] \in seen } }
                \cup { e[1] : e \in { d \in edges : d[2] \in seen } }
    IN IF more \subseteq seen THEN seen ELSE Reach(seen \cup more, edges)

\* the subgraph that `nodes` induces is connected
Connected(nodes, edges) ==
    \/ nodes = {}
    \/ LET r == CHOOSE x \in nodes : TRUE
       IN Reach({r}, subgraph_edges(edges, nodes)) = nodes

\* every tree the random spanning tree of bipartition_tree can be
SpanningTrees(nodes, edges) ==
    { T \in SUBSET subgraph_edges(edges, nodes) :
        /\ Cardinality(T) = Cardinality(nodes) - 1
        /\ Reach({CHOOSE x \in nodes : TRUE}, T) = nodes }

\* abs(pop - pop_target) <= pop_target * epsilon
Balanced(pop, pop_target, epsilon) ==
    LET diff == pop * pop_target.den - pop_target.num
        absdiff == IF diff < 0 THEN 0 - diff ELSE diff
    IN absdiff * epsilon.den <= pop_target.num * epsilon.num

\* a split that takes any balanced set of nodes, along a tree or not
bipartition_any(nodes, edges, pop_col, pop_target, epsilon) ==
    { side \in SUBSET nodes :
        side # {} /\ Balanced(SumOver(NodeAttr(pop_col), side), pop_target, epsilon) }

(***************************************************************************)
(* gerrychain.tree.bipartition_tree on the subgraph `nodes`: a random      *)
(* spanning tree, then a random one of its balanced cuts; the result is    *)
(* the side of the cut whose population is within epsilon of pop_target.   *)
(* The value is the set of results the random draws can give.              *)
(***************************************************************************)
bipartition_tree(nodes, edges, pop_col, pop_target, epsilon) ==
    UNION { UNION { { side \in { Reach({e[1]}, T \ {e}), Reach({e[2]}, T \ {e}) } :
                        Balanced(SumOver(NodeAttr(pop_col), side), pop_target, epsilon) }
                    : e \in T }
            : T \in SpanningTrees(nodes, edges) }

RECURSIVE recursive_tree_part(_, _, _, _, _, _)
(***************************************************************************)
(* recursive_tree_part(graph, parts, pop_target, pop_col, epsilon, 10):    *)
(* for every part but the last one bipartition_tree splits a part off the  *)
(* remaining nodes, and the last part takes what remains.  The value is    *)
(* the set of assignments (flips) the call can return.                     *)
(***************************************************************************)
recursive_tree_part(nodes, edges, parts, pop_target, pop_col, epsilon) ==
    IF Len(parts) = 1
    THEN { [n \in nodes |-> parts[1]] }
    ELSE UNION { { [n \in nodes |-> IF n \in sub THEN parts[1] ELSE rest[n]] :
                     rest \in recursive_tree_part(nodes \ sub, edges, Tail(parts),
                                                  pop_target, pop_col, epsilon) }
                 : sub \in bipartition_tree(nodes, edges, pop_col, pop_target, epsilon) }

\* the labels 1, ..., num_districts
Range_from_one(n) == [i \in 1..n |-> i]

\* range(num_districts)
Range(n) == [i \in 1..n |-> i - 1]

(***************************************************************************)
(* Partition(graph, plan, updaters): the updaters of a partition without   *)
(* parent are computed from the assignment.                                *)
(***************************************************************************)
PartNodes(assignment, district) ==
    { n \in DOMAIN assignment : assignment[n] = district }

Districts(assignment) == { assignment[n] : n \in DOMAIN assignment }

\* cut_edges of a partition without parent
initialize_cut_edges(edges, assignment) ==
    { e \in subgraph_edges(edges, DOMAIN assignment) :
        assignment[e[1]] # assignment[e[2]] }

\* Tally of a partition without parent
initialize_tally(field, assignment) ==
    [ d \in Districts(assignment) |->
        SumOver(NodeAttr(field), PartNodes(assignment, d)) ]

Partition(edges, plan, updaters) ==
    [ assignment |-> plan,
      cut_edges |-> initialize_cut_edges(edges, plan),
      tally |-> [ alias \in DOMAIN updaters |-> initialize_tally(updaters[alias], plan) ] ]

\* the partitions one call of recursive_tree_part in __random_partitions can give
random_partition_plans(pipeline, region) ==
    recursive_tree_part(graph_nodes(region), graph_edges(region),
                        Range(num_districts(region)), idealpop(pipeline, region),
                        totpop_key(pipeline), pop_tolerance)

(***************************************************************************)
(* Partition.flip(flips): the updaters of a partition with a parent are    *)
(* computed from the parent's values and the flows of the flipped nodes.   *)
(***************************************************************************)
\* the nodes that flips moves into / out of a district
in_flow(parent, flips, district) ==
    { n \in DOMAIN flips : flips[n] = district /\ parent.assignment[n] # district }

out_flow(parent, flips, district) ==
    { n \in DOMAIN flips : parent.assignment[n] = district /\ flips[n] # district }

\* a tally that forgets the nodes flipped into a district
update_tally_without_in_flow(field, parent, old_tally, flips) ==
    [ d \in DOMAIN old_tally |->
        old_tally[d] - SumOver(NodeAttr(field), out_flow(parent, flips, d)) ]

\* Tally._update_tally
update_tally(field, parent, old_tally, flips) ==
    [ d \in DOMAIN old_tally |->
        old_tally[d] - SumOver(NodeAttr(field), out_flow(parent, flips, d))
                     + SumOver(NodeAttr(field), in_flow(parent, flips, d)) ]

\* cut edges that keep the edges a flip has closed
update_cut_edges_keeping_obsolete(edges, parent, new_assignment, flips) ==
    LET flipped == { n \in DOMAIN flips : flips[n] # parent.assignment[n] }
        touched == { e \in edges : e[1] \in flipped \/ e[2] \in flipped }
        new_cuts == { e \in touched : new_assignment[e[1]] # new_assignment[e[2]] }
    IN parent.cut_edges \cup new_cuts

\* cut_edges of a partition with a parent
update_cut_edges(edges, parent, new_assignment, flips) ==
    LET flipped == { n \in DOMAIN flips : flips[n] # parent.assignment[n] }
        touched == { e \in edges : e[1] \in flipped \/ e[2] \in flipped }
        new_cuts == { e \in touched : new_assignment[e[1]] # new_assignment[e[2]] }
        obsolete_cuts == { e \in touched : new_assignment[e[1]] = new_assignment[e[2]] }
    IN (parent.cut_edges \cup new_cuts) \ obsolete_cuts

\* a flip that also relabels the nodes that are not flipped
flip_relabelling(edges, updaters, parent, flips) ==
    LET new_assignment ==
            [ n \in DOMAIN parent.assignment |->
                IF n \in DOMAIN flips THEN flips[n]
                ELSE flips[CHOOSE m \in DOMAIN flips : TRUE] ]
    IN [ assignment |-> new_assignment,
         cut_edges |-> update_cut_edges(edges, parent, new_assignment, flips),
         tally |-> [ alias \in DOMAIN updaters |->
                       update_tally(updaters[alias], parent, parent.tally[alias], flips) ] ]

flip(edges, updaters, parent, flips) ==
    LET new_assignment ==
            [ n \in DOMAIN parent.assignment |->
                IF n \in DOMAIN flips THEN flips[n] ELSE parent.assignment[n] ]
    IN [ assignment |-> new_assignment,
         cut_edges |-> update_cut_edges(edges, parent, new_assignment, flips),
         tally |-> [ alias \in DOMAIN updaters |->
                       update_tally(updaters[alias], parent, parent.tally[alias], flips) ] ]

(***************************************************************************)
(* The proposal partial(recom, pop_col, pop_target=idealpop,               *)
(* epsilon=pop_tolerance, node_repeats=1): a random cut edge names the two *)
(* districts to merge, recursive_tree_part splits the merged subgraph into *)
(* the two labels, and the partition is flipped.  The value is the set of  *)
(* candidates the random draws can give.                                   *)
(***************************************************************************)
recom(edges, updaters, partition, pop_col, pop_target, epsilon) ==
    UNION { { flip(edges, updaters, partition, flips) :
                flips \in recursive_tree_part(
                    PartNodes(partition.assignment, partition.assignment[edge[1]])
                        \cup PartNodes(partition.assignment, partition.assignment[edge[2]]),
                    edges,
                    << partition.assignment[edge[1]], partition.assignment[edge[2]] >>,
                    pop_target, pop_col, epsilon) }
            : edge \in partition.cut_edges }

proposal(pipeline, region, partition) ==
    recom(graph_edges(region), my_updaters(pipeline), partition,
          totpop_key(pipeline), idealpop(pipeline, region), pop_tolerance)

\* a constraint whose ideal value is the total of the partition's district 0
within_percent_of_first_district(initial_partition, percent, key) ==
    [ pop_key |-> key,
      percent |-> percent,
      ideal_population |-> [ num |-> initial_partition.tally[key][0], den |-> 1 ] ]

(***************************************************************************)
(* constraints.within_percent_of_ideal_population(partition, pop_tolerance,*)
(* pop_key): the bounds (1 -+ percent) * ideal, where ideal is the sum of  *)
(* the partition's district totals over the number of its districts.       *)
(***************************************************************************)
RECURSIVE SumValues(_, _)
SumValues(f, keys) ==
    IF keys = {} THEN 0
    ELSE LET k == CHOOSE x \in keys : TRUE
         IN f[k] + SumValues(f, keys \ {k})

within_percent_of_ideal_population(initial_partition, percent, key) ==
    LET tally == initial_partition.tally[key]
    IN [ pop_key |-> key,
         percent |-> percent,
         ideal_population |-> [ num |-> SumValues(tally, DOMAIN tally),
                                den |-> Cardinality(DOMAIN tally) ] ]

\* Bounds.__call__: lower <= min(values) and max(values) <= upper
is_valid(constraint, partition) ==
    \A d \in DOMAIN partition.tally[constraint.pop_key] :
        Balanced(partition.tally[constraint.pop_key][d],
                 constraint.ideal_population, constraint.percent)

(***************************************************************************)
(* Exact quotients.                                                        *)
(***************************************************************************)
RECURSIVE GCD(_, _)
GCD(a, b) == IF b = 0 THEN a ELSE GCD(b, a % b)

Abs(a) == IF a < 0 THEN 0 - a ELSE a

\* the quotient num / den, den > 0, in lowest terms
Quot(num, den) ==
    LET g == GCD(Abs(num), den)
    IN [num |-> num \div g, den |-> den \div g]

QuotAdd(a, b) == Quot(a.num * b.den + b.num * a.den, a.den * b.den)

QuotSub(a, b) == Quot(a.num * b.den - b.num * a.den, a.den * b.den)

\* a / b >= 0.5
AtLeastHalf(a, b) == 2 * a >= b

\* a / b > 0.5
MoreThanHalf(a, b) == 2 * a > b

(***************************************************************************)
(* The body of the loop `for part in rw` of __walk: the statistics of one  *)
(* yielded partition.                                                      *)
(***************************************************************************)
RECURSIVE majmin_count(_, _)
\* make_demographic_ensembles.__walk: count after i iterations of the inner loop
majmin_count(part, i) ==
    IF i = 0 THEN 0
    ELSE majmin_count(part, i - 1)
         + (IF MoreThanHalf(part.tally.district_hispanic_latino_pop[i - 1],
                            part.tally.district_totpop[i - 1])
            THEN 1 ELSE 0)

\* accumulators that pass over a district nobody wins
district_votes_won_only(acc, totvotes, votes_republican, votes_democrat) ==
    LET votes_needed == Quot(totvotes, 2)
    IN IF MoreThanHalf(votes_republican, totvotes)
       THEN [ seats |-> acc.seats + 1,
              wasted_republican |->
                  QuotAdd(acc.wasted_republican,
                          QuotSub(Quot(votes_republican, 1), votes_needed)),
              wasted_democrat |-> QuotAdd(acc.wasted_democrat, Quot(votes_democrat, 1)),
              plan_totvotes |-> acc.plan_totvotes + totvotes ]
       ELSE IF MoreThanHalf(votes_democrat, totvotes)
       THEN [ seats |-> acc.seats,
              wasted_republican |->
                  QuotAdd(acc.wasted_republican, Quot(votes_republican, 1)),
              wasted_democrat |->
                  QuotAdd(acc.wasted_democrat,
                          QuotSub(Quot(votes_democrat, 1), votes_needed)),
              plan_totvotes |-> acc.plan_totvotes + totvotes ]
       ELSE acc

\* accumulators that charge a winner all of its votes
district_votes_all_wasted(acc, totvotes, votes_republican, votes_democrat) ==
    IF MoreThanHalf(votes_republican, totvotes) \/ MoreThanHalf(votes_democrat, totvotes)
    THEN [ seats |-> acc.seats + (IF MoreThanHalf(votes_republican, totvotes) THEN 1 ELSE 0),
           wasted_republican |-> QuotAdd(acc.wasted_republican, Quot(votes_republican, 1)),
           wasted_democrat |-> QuotAdd(acc.wasted_democrat, Quot(votes_democrat, 1)),
           plan_totvotes |-> acc.plan_totvotes + totvotes ]
    ELSE [ acc EXCEPT !.plan_totvotes = acc.plan_totvotes + totvotes ]

\* make_voting_ensembles.__walk: what one district adds to the accumulators
district_votes(acc, totvotes, votes_republican, votes_democrat) ==
    LET votes_needed == Quot(totvotes, 2)
    IN IF MoreThanHalf(votes_republican, totvotes)
       THEN [ seats |-> acc.seats + 1,
              wasted_republican |->
                  QuotAdd(acc.wasted_republican,
                          QuotSub(Quot(votes_republican, 1), votes_needed)),
              wasted_democrat |-> QuotAdd(acc.wasted_democrat, Quot(votes_democrat, 1)),
              plan_totvotes |-> acc.plan_totvotes + totvotes ]
       ELSE IF MoreThanHalf(votes_democrat, totvotes)
       THEN [ seats |-> acc.seats,
              wasted_republican |->
                  QuotAdd(acc.wasted_republican, Quot(votes_republican, 1)),
              wasted_democrat |->
                  QuotAdd(acc.wasted_democrat,
                          QuotSub(Quot(votes_democrat, 1), votes_needed)),
              plan_totvotes |-> acc.plan_totvotes + totvotes ]
       ELSE [ acc EXCEPT !.plan_totvotes = acc.plan_totvotes + totvotes ]

RECURSIVE votes_loop(_, _)
\* make_voting_ensembles.__walk: the accumulators after i iterations of the inner loop
votes_loop(part, i) ==
    IF i = 0
    THEN [ seats |-> 0, wasted_democrat |-> Quot(0, 1),
           wasted_republican |-> Quot(0, 1), plan_totvotes |-> 0 ]
    ELSE district_votes(votes_loop(part, i - 1),
                        part.tally.district_totvotes[i - 1],
                        part.tally.district_republican_votes[i - 1],
                        part.tally.district_democrat_votes[i - 1])

\* the gap with the two categories exchanged
efficiency_gap_exchanged(acc) ==
    LET diff == QuotSub(acc.wasted_republican, acc.wasted_democrat)
    IN Quot(diff.num, diff.den * acc.plan_totvotes)

\* gap = (wasted_democrat - wasted_republican) / plan_totvotes
efficiency_gap(acc) ==
    LET diff == QuotSub(acc.wasted_democrat, acc.wasted_republican)
    IN Quot(diff.num, diff.den * acc.plan_totvotes)

\* the empty lists __walk starts from
empty_ens(pipeline) ==
    IF pipeline = "demographic"
    THEN [ cutedges |-> << >>, majmin |-> << >> ]
    ELSE [ cutedges |-> << >>, republican_seats |-> << >>, efficiency_gap |-> << >> ]

\* lists that keep the newest statistics only
walk_overwrite(pipeline, ens, part, n) ==
    IF pipeline = "demographic"
    THEN [ cutedges |-> << Cardinality(part.cut_edges) >>,
           majmin |-> << majmin_count(part, n) >> ]
    ELSE LET acc == votes_loop(part, n)
         IN [ cutedges |-> << Cardinality(part.cut_edges) >>,
              republican_seats |-> << acc.seats >>,
              efficiency_gap |-> << efficiency_gap(acc) >> ]

\* the appends at the end of the loop body
walk_append(pipeline, ens, part, n) ==
    IF pipeline = "demographic"
    THEN [ cutedges |-> Append(ens.cutedges, Cardinality(part.cut_edges)),
           majmin |-> Append(ens.majmin, majmin_count(part, n)) ]
    ELSE LET acc == votes_loop(part, n)
         IN [ cutedges |-> Append(ens.cutedges, Cardinality(part.cut_edges)),
              republican_seats |-> Append(ens.republican_seats, acc.seats),
              efficiency_gap |-> Append(ens.efficiency_gap, efficiency_gap(acc)) ]

(***************************************************************************)
(* Aggregation of the NorCal, Cal and SoCal ensembles into Cal 3:          *)
(* [norcal + cal + socal for norcal, cal, socal in zip(...)].              *)
(***************************************************************************)
Min(a, b) == IF a < b THEN a ELSE b

\* sums that leave the last region out
zip_sum_without_socal(norcal, cal, socal) ==
    [ i \in 1..Min(Len(norcal), Min(Len(cal), Len(socal))) |-> norcal[i] + cal[i] ]

zip_sum(norcal, cal, socal) ==
    [ i \in 1..Min(Len(norcal), Min(Len(cal), Len(socal))) |->
        norcal[i] + cal[i] + socal[i] ]

\* the same for the efficiency gaps, which are quotients
zip_sum_quot(norcal, cal, socal) ==
    [ i \in 1..Min(Len(norcal), Min(Len(cal), Len(socal))) |->
        QuotAdd(QuotAdd(norcal[i], cal[i]), socal[i]) ]

aggregate(pipeline, norcal, cal, socal) ==
    IF pipeline = "demographic"
    THEN [ cutedges |-> zip_sum(norcal.cutedges, cal.cutedges, socal.cutedges),
           majmin |-> zip_sum(norcal.majmin, cal.majmin, socal.majmin) ]
    ELSE [ cutedges |-> zip_sum(norcal.cutedges, cal.cutedges, socal.cutedges),
           republican_seats |-> zip_sum(norcal.republican_seats,
                                        cal.republican_seats,
                                        socal.republican_seats),
           efficiency_gap |-> zip_sum_quot(norcal.efficiency_gap,
                                           cal.efficiency_gap,
                                           socal.efficiency_gap) ]

(***************************************************************************)
(* The state.  Two executions of a pipeline on the same inputs are run     *)
(* side by side; exec[e] holds the variables of execution e:               *)
(*   pc          where the execution is in the pipeline                    *)
(*   rng         the state of gerrychain.random.random, the one generator  *)
(*               of the process: the stream it is on and how many draws    *)
(*               were made from it                                         *)
(*   part        part_norcal_1, ..., part_socal_2, as far as built         *)
(*   rw          rw_norcal_1, ..., rw_socal_2, the chains still to be      *)
(*               walked; the first one is the chain being walked           *)
(*   k           the index in chains of the chain being walked             *)
(*   rejects     the candidates in a row the running step has seen fail    *)
(*   ens         the lists __walk appends to, one record per chain         *)
(*   cal3        the Cal 3 ensembles, one record per seed                  *)
(* What the pipeline does not read again is dropped: the partitions once   *)
(* the chains hold them, and a chain once it has been walked.              *)
(* The inputs are the pipeline that runs and its parameter `steps`.        *)
(* Two parts of the program are also followed on their own, each with its  *)
(* own variable, which stays idle while the pipeline runs:                 *)
(*   tree_part   one call of recursive_tree_part, step by step             *)
(*   apportion   the apportionment of the 52 seats to the three regions    *)
(*   prepare     the chains of one region, built from the partitions of    *)
(*               both of its seeds                                         *)
(***************************************************************************)
VARIABLES pipeline, steps, exec, tree_part, apportion, prepare, walks

vars == <<pipeline, steps, exec, tree_part, apportion, prepare, walks>>

idle == [pc |-> "idle"]

Execs == {1, 2}

\* seeds=[0, 1] of the regions; the model follows the chains of the first seed
\* (the statewide chains and the chains of the second seed are built and walked
\* by the same functions)
seeds == <<0>>

\* the chains in the order they are built and walked: region by region, seed by seed
chains ==
    [ j \in 1..(Len(Regions) * Len(seeds)) |->
        [ region |-> Regions[((j - 1) \div Len(seeds)) + 1],
          slot |-> ((j - 1) % Len(seeds)) + 1 ] ]

\* the index in chains of the chain of a region and a seed
chain_of(r, slot) == (r - 1) * Len(seeds) + slot

\* a generator that is left as it is found
seed_random_skipped(rng, seed) == rng

\* random.seed(seed)
seed_random(rng, seed) == [stream |-> "seed", id |-> seed, pos |-> 0]

\* the generator after n more draws
draw(rng, n) == [rng EXCEPT !.pos = rng.pos + n]

\* an acceptance function that accepts no candidate
never_accept(partition) == FALSE

\* accept=always_accept
always_accept(partition) == TRUE

\* a chain built without its population constraint
markov_chain_unconstrained(constraint, initial_state, total_steps) ==
    [ constraints |-> << >>,
      state |-> initial_state,
      counter |-> 0,
      total_steps |-> total_steps ]

\* a chain built to take one step more than asked
markov_chain_one_more(constraint, initial_state, total_steps) ==
    [ constraints |-> <<constraint>>,
      state |-> initial_state,
      counter |-> 0,
      total_steps |-> total_steps + 1 ]

\* __markov_chain(proposal, constraint, initial_state, steps=steps)
markov_chain(constraint, initial_state, total_steps) ==
    [ constraints |-> <<constraint>>,
      state |-> initial_state,
      counter |-> 0,
      total_steps |-> total_steps ]

\* Validator(constraints)(partition)
chain_valid(chain, partition) ==
    \A i \in 1..Len(chain.constraints) : is_valid(chain.constraints[i], partition)

Init ==
    /\ pipeline \in Pipelines
    /\ steps \in 1..MaxSteps
    /\ exec = [ e \in Execs |->
                  [ pc |-> "seed",
                    rng |-> [stream |-> "boot", id |-> e, pos |-> 0],
                    part |-> << >>,
                    rw |-> << >>,
                    k |-> 1,
                    rejects |-> 0,
                    ens |-> [j \in 1..Len(chains) |-> empty_ens(pipeline)],
                    cal3 |-> [slot \in 1..Len(seeds) |-> empty_ens(pipeline)] ] ]
    /\ tree_part = idle
    /\ apportion = idle
    /\ prepare = idle
    /\ walks = idle

(***************************************************************************)
(* The generator is deterministic: the executions take each step together, *)
(* and executions in the same state, generator included, take the same     *)
(* step.  Together(At, Succ) is the set of values of exec after the        *)
(* executions that are at a step have taken it.                            *)
(***************************************************************************)
Together(At(_), Succ(_)) ==
    { [e \in Execs |-> IF e = 1 THEN n[1] ELSE n[2]] :
        n \in { m \in (IF At(exec[1]) THEN Succ(exec[1]) ELSE {exec[1]})
                       \X (IF At(exec[2]) THEN Succ(exec[2]) ELSE {exec[2]}) :
                  exec[1] = exec[2] => m[1] = m[2] } }

(***************************************************************************)
(* __random_partitions: `for seed in seeds`, for each region in turn.      *)
(***************************************************************************)
\* random.seed(seed)
AtSeed(s) == s.pc = "seed"

SeedSucc(s) ==
    { [s EXCEPT !.pc = "plan",
                !.rng = seed_random(s.rng, seeds[chains[Len(s.part) + 1].slot])] }

random_seed ==
    /\ \E e \in Execs : AtSeed(exec[e])
    /\ exec' \in Together(AtSeed, SeedSucc)
    /\ UNCHANGED <<pipeline, steps, tree_part, apportion, prepare, walks>>

\* plans.append(recursive_tree_part(...)) and Partition(graph, plan, updaters)
AtPlan(s) == s.pc = "plan"

PlanSucc(s) ==
    LET region == chains[Len(s.part) + 1].region
    IN { [s EXCEPT !.part = Append(s.part,
                                   Partition(graph_edges(region), plan, my_updaters(pipeline))),
                   !.rng = draw(s.rng, num_districts(region) - 1),
                   !.pc = IF Len(s.part) + 1 = Len(chains) THEN "chains" ELSE "seed"]
         : plan \in random_partition_plans(pipeline, region) }

random_partitions ==
    /\ \E e \in Execs : AtPlan(exec[e])
    /\ exec' \in Together(AtPlan, PlanSucc)
    /\ UNCHANGED <<pipeline, steps, tree_part, apportion, prepare, walks>>

(***************************************************************************)
(* "Prepare random walks": the constraint of a region is built from the    *)
(* partition of its first seed; MarkovChain raises ValueError when its     *)
(* initial state fails its constraints.                                    *)
(***************************************************************************)
AtChains(s) == s.pc = "chains"

ChainsSucc(s) ==
    LET constraint == [ r \in 1..Len(Regions) |->
                          within_percent_of_ideal_population(
                              s.part[chain_of(r, 1)], pop_tolerance, pop_key(pipeline)) ]
        built == [ j \in 1..Len(chains) |->
                     markov_chain(constraint[((j - 1) \div Len(seeds)) + 1],
                                  s.part[j], steps) ]
    IN IF \A j \in 1..Len(chains) : chain_valid(built[j], s.part[j])
       THEN { [s EXCEPT !.rw = built, !.part = << >>, !.pc = "walk", !.k = 1] }
       ELSE { [s EXCEPT !.part = << >>, !.pc = "raised"] }

prepare_chains ==
    /\ \E e \in Execs : AtChains(exec[e])
    /\ exec' \in Together(AtChains, ChainsSucc)
    /\ UNCHANGED <<pipeline, steps, tree_part, apportion, prepare, walks>>

(***************************************************************************)
(* __walk(rw, num_districts): one action for each way an iteration of      *)
(* `for part in rw` can go.                                                *)
(***************************************************************************)
Walking(s) == s.pc = "walk"

\* MarkovChain.__next__ with counter = 0 yields the initial state
AtFirst(s) == Walking(s) /\ s.rw[1].counter = 0

FirstSucc(s) ==
    { [s EXCEPT !.rw[1].counter = 1,
                !.ens[s.k] = walk_append(pipeline, s.ens[s.k], s.rw[1].state,
                                         num_districts(chains[s.k].region))] }

walk_first ==
    /\ \E e \in Execs : AtFirst(exec[e])
    /\ exec' \in Together(AtFirst, FirstSucc)
    /\ UNCHANGED <<pipeline, steps, tree_part, apportion, prepare, walks>>

\* MarkovChain.__next__ with 0 < counter < total_steps: one candidate
AtStep(s) ==
    /\ Walking(s)
    /\ s.rw[1].counter > 0
    /\ s.rw[1].counter < s.rw[1].total_steps

StepSucc(s) ==
    LET chain == s.rw[1]
        region == chains[s.k].region
        accepted(cand) ==
            LET next_state == IF always_accept(cand) THEN cand ELSE chain.state
            IN [s EXCEPT !.rng = draw(s.rng, 1),
                         !.rejects = 0,
                         !.rw[1].state = next_state,
                         !.rw[1].counter = chain.counter + 1,
                         !.ens[s.k] = walk_append(pipeline, s.ens[s.k], next_state,
                                                  num_districts(region))]
        rejected == [s EXCEPT !.rng = draw(s.rng, 1), !.rejects = s.rejects + 1]
    IN { IF chain_valid(chain, cand) THEN accepted(cand) ELSE rejected
         : cand \in { c \in proposal(pipeline, region, chain.state) :
                        chain_valid(chain, c) \/ s.rejects < MaxRejects } }

walk_step ==
    /\ \E e \in Execs : AtStep(exec[e])
    /\ exec' \in Together(AtStep, StepSucc)
    /\ UNCHANGED <<pipeline, steps, tree_part, apportion, prepare, walks>>

\* MarkovChain.__next__ with counter >= total_steps raises StopIteration
AtReturn(s) ==
    /\ Walking(s)
    /\ s.rw[1].counter > 0
    /\ s.rw[1].counter >= s.rw[1].total_steps

ReturnSucc(s) ==
    { IF s.k = Len(chains)
      THEN [s EXCEPT !.rw = Tail(s.rw), !.pc = "aggregate"]
      ELSE [s EXCEPT !.rw = Tail(s.rw), !.k = s.k + 1] }

walk_return ==
    /\ \E e \in Execs : AtReturn(exec[e])
    /\ exec' \in Together(AtReturn, ReturnSucc)
    /\ UNCHANGED <<pipeline, steps, tree_part, apportion, prepare, walks>>

(***************************************************************************)
(* "Aggregate NorCal, Cal, SoCal ensembles into Cal 3 ensembles", seed by  *)
(* seed.                                                                   *)
(***************************************************************************)
AtAggregate(s) == s.pc = "aggregate"

AggregateSucc(s) ==
    { [s EXCEPT !.cal3 = [ slot \in 1..Len(seeds) |->
                             aggregate(pipeline, s.ens[chain_of(1, slot)],
                                       s.ens[chain_of(2, slot)],
                                       s.ens[chain_of(3, slot)]) ],
                !.pc = "done"] }

aggregate_cal3 ==
    /\ \E e \in Execs : AtAggregate(exec[e])
    /\ exec' \in Together(AtAggregate, AggregateSucc)
    /\ UNCHANGED <<pipeline, steps, tree_part, apportion, prepare, walks>>

Next ==
    \/ random_seed
    \/ random_partitions
    \/ prepare_chains
    \/ walk_first
    \/ walk_step
    \/ walk_return
    \/ aggregate_cal3

Spec == Init /\ [][Next]_vars

(***************************************************************************)
(* One call of recursive_tree_part, as __random_partitions makes it, step  *)
(* by step.  The graph is a cycle of four nodes; the call's inputs are the *)
(* populations of the nodes, the tolerance and the balance_edge_fn of the  *)
(* installed gerrychain: find_balanced_edge_cuts_memoization accepts a     *)
(* side when abs(pop - ideal) <= ideal * epsilon, the older                *)
(* find_balanced_edge_cuts_contraction when abs(pop - ideal) < ideal *     *)
(* epsilon, and only for the subtree below the cut edge.                   *)
(* tree_part holds the call's variables:                                   *)
(*   pops, epsilon, pop_target, balance_edge_fn   the inputs               *)
(*   parts            the parts still to be made                           *)
(*   remaining_nodes  the nodes that have no part yet                      *)
(*   flips            the assignment so far                                *)
(*   spanning_tree, restarts, possible_cuts   bipartition_tree's locals    *)
(***************************************************************************)
cycle_nodes == 1..4

cycle_edges == { <<1, 2>>, <<2, 3>>, <<3, 4>>, <<1, 4>> }

cycle_pops == { <<10, 10, 10, 10>>, <<30, 10, 10, 10>> }

tolerances == { [num |-> 1, den |-> 2], pop_tolerance }

balance_edge_fns == { "memoization", "contraction" }

\* the last argument of recursive_tree_part
node_repeats == 10

PopOf(pops, nodes) == SumOver([n \in 1..Len(pops) |-> pops[n]], nodes)

\* the nodes of the subtree below `node` and the root as well
part_nodes_and_root(tree, root, node) ==
    {root} \cup
    (CHOOSE S \in { Reach({node}, tree \ {e}) : e \in { t \in tree : node \in {t[1], t[2]} } } :
        root \notin S)

\* the nodes of the subtree below `node` in the tree rooted at `root`
part_nodes(tree, root, node) ==
    CHOOSE S \in { Reach({node}, tree \ {e}) : e \in { t \in tree : node \in {t[1], t[2]} } } :
        root \notin S

\* abs(pop - pop_target) < pop_target * epsilon
has_ideal_population(pop, pop_target, epsilon) ==
    LET diff == pop * pop_target.den - pop_target.num
        absdiff == IF diff < 0 THEN 0 - diff ELSE diff
    IN absdiff * epsilon.den < pop_target.num * epsilon.num

\* the subsets of the cuts balance_edge_fn finds in the tree rooted at root
find_balanced_edge_cuts(balance_edge_fn, nodes, tree, root, pops, pop_target, epsilon) ==
    LET below(node) == part_nodes(tree, root, node)
    IN IF balance_edge_fn = "memoization"
       THEN { IF Balanced(PopOf(pops, below(node)), pop_target, epsilon)
              THEN below(node) ELSE nodes \ below(node) :
                node \in { n \in nodes \ {root} :
                             \/ Balanced(PopOf(pops, below(n)), pop_target, epsilon)
                             \/ Balanced(PopOf(pops, nodes \ below(n)), pop_target, epsilon) } }
       ELSE { below(node) :
                node \in { n \in nodes \ {root} :
                             has_ideal_population(PopOf(pops, below(n)), pop_target, epsilon) } }

\* flips[node] = part for the nodes
assign(flips, nodes, part) ==
    [ n \in DOMAIN flips \cup nodes |-> IF n \in nodes THEN part ELSE flips[n] ]

InitTreePart ==
    /\ pipeline = "demographic"
    /\ steps = 1
    /\ exec = << >>
    /\ apportion = idle
    /\ prepare = idle
    /\ walks = idle
    /\ \E pops \in cycle_pops, epsilon \in tolerances, fn \in balance_edge_fns :
          tree_part = [ pc |-> "spanning_tree",
                        pops |-> pops,
                        epsilon |-> epsilon,
                        pop_target |-> Quot(PopOf(pops, cycle_nodes), 2),
                        balance_edge_fn |-> fn,
                        parts |-> Range(2),
                        remaining_nodes |-> cycle_nodes,
                        flips |-> << >>,
                        spanning_tree |-> {},
                        restarts |-> 0,
                        possible_cuts |-> {} ]

\* spanning_tree = random_spanning_tree(graph.subgraph(remaining_nodes))
random_spanning_tree ==
    /\ tree_part.pc = "spanning_tree"
    /\ \E tree \in SpanningTrees(tree_part.remaining_nodes, cycle_edges) :
          tree_part' = [tree_part EXCEPT !.pc = "balance_edge_fn",
                                         !.spanning_tree = tree,
                                         !.restarts = 0]
    /\ UNCHANGED <<pipeline, steps, exec, apportion, prepare, walks>>

\* possible_cuts = balance_edge_fn(h, choice), from a random root of degree > 1
balanced_edge_cuts ==
    /\ tree_part.pc = "balance_edge_fn"
    /\ \E root \in { x \in tree_part.remaining_nodes :
                       Cardinality({ t \in tree_part.spanning_tree : x \in {t[1], t[2]} }) > 1 } :
          tree_part' = [tree_part EXCEPT
                          !.pc = "possible_cuts",
                          !.possible_cuts =
                              find_balanced_edge_cuts(tree_part.balance_edge_fn,
                                                      tree_part.remaining_nodes,
                                                      tree_part.spanning_tree, root,
                                                      tree_part.pops, tree_part.pop_target,
                                                      tree_part.epsilon)]
    /\ UNCHANGED <<pipeline, steps, exec, apportion, prepare, walks>>

\* return choice(possible_cuts).subset, and the part takes these nodes
choice_of_cut ==
    /\ tree_part.pc = "possible_cuts"
    /\ tree_part.possible_cuts # {}
    /\ \E nodes \in tree_part.possible_cuts :
          tree_part' = [tree_part EXCEPT
                          !.pc = IF Len(tree_part.parts) = 2
                                 THEN "last_part" ELSE "spanning_tree",
                          !.flips = assign(tree_part.flips, nodes, tree_part.parts[1]),
                          !.remaining_nodes = tree_part.remaining_nodes \ nodes,
                          !.parts = Tail(tree_part.parts),
                          !.spanning_tree = {},
                          !.possible_cuts = {}]
    /\ UNCHANGED <<pipeline, steps, exec, apportion, prepare, walks>>

\* no balanced cut: restarts += 1, and a new tree after node_repeats restarts
restart ==
    /\ tree_part.pc = "possible_cuts"
    /\ tree_part.possible_cuts = {}
    /\ tree_part' = [tree_part EXCEPT
                       !.pc = IF tree_part.restarts + 1 = node_repeats
                              THEN "spanning_tree" ELSE "balance_edge_fn",
                       !.restarts = tree_part.restarts + 1]
    /\ UNCHANGED <<pipeline, steps, exec, apportion, prepare, walks>>

\* the last part takes the remaining nodes; return flips
last_part ==
    /\ tree_part.pc = "last_part"
    /\ tree_part' = [tree_part EXCEPT
                       !.pc = "returned",
                       !.flips = assign(tree_part.flips, tree_part.remaining_nodes,
                                        tree_part.parts[1]),
                       !.remaining_nodes = {},
                       !.parts = << >>]
    /\ UNCHANGED <<pipeline, steps, exec, apportion, prepare, walks>>

NextTreePart ==
    \/ random_spanning_tree
    \/ balanced_edge_cuts
    \/ choice_of_cut
    \/ restart
    \/ last_part

SpecTreePart == InitTreePart /\ [][NextTreePart]_vars

(***************************************************************************)
(* The apportionment of the seats, on its own.  The inputs are the         *)
(* pipeline and the totals of the three regions (total_pop or total_votes  *)
(* summed over the region's nodes); the state's total is their sum.        *)
(* apportion holds                                                         *)
(*   totpop          totpop_norcal, totpop_cal, totpop_socal               *)
(*   num_districts   num_districts_norcal, num_districts_cal,              *)
(*                   num_districts_socal, once computed                    *)
(*   partitions      whether the initial partitions have been built        *)
(*   chain_steps     whether the chains have been walked                   *)
(*   ensembles       whether the ensembles have been written               *)
(***************************************************************************)
\* number of seats for California
num_districts_california == 52

\* the totals a region can have
totpops == {1, 2, 3, 4, 6}

RECURSIVE SumSeq(_)
SumSeq(s) == IF s = << >> THEN 0 ELSE Head(s) + SumSeq(Tail(s))

\* round(num / den): to the nearest integer, a half to the even one
round(num, den) ==
    LET q == num \div den
        r == num % den
    IN IF 2 * r < den THEN q
       ELSE IF 2 * r > den THEN q + 1
       ELSE IF q % 2 = 0 THEN q ELSE q + 1

\* round(num_districts_california * (totpop / totpop_california)) per region
rounded_districts(totals) ==
    [ r \in 1..Len(totals) |-> round(num_districts_california * totals[r], SumSeq(totals)) ]

\* a count that is left as rounded
increment_skipped(num_districts_cal) == num_districts_cal

\* num_districts_cal += 1
increment(num_districts_cal) == num_districts_cal + 1

\* a check that lets every sum pass
seats_unchecked(counts) == TRUE

\* sum([num_districts_norcal, num_districts_cal, num_districts_socal])
\*     = num_districts_california
seats_match(counts) == SumSeq(counts) = num_districts_california

InitApportion ==
    /\ pipeline \in Pipelines
    /\ steps = 1
    /\ exec = << >>
    /\ tree_part = idle
    /\ prepare = idle
    /\ walks = idle
    /\ \E norcal \in totpops, cal \in totpops, socal \in totpops :
          apportion = [ pc |-> "round",
                        totpop |-> <<norcal, cal, socal>>,
                        num_districts |-> << >>,
                        partitions |-> FALSE,
                        chain_steps |-> FALSE,
                        ensembles |-> FALSE ]

\* number of seats for NorCal, Cal, SoCal
round_districts ==
    /\ apportion.pc = "round"
    /\ apportion' = [apportion EXCEPT
                       !.num_districts = rounded_districts(apportion.totpop),
                       !.pc = IF pipeline = "voting" THEN "increment" ELSE "check"]
    /\ UNCHANGED <<pipeline, steps, exec, tree_part, prepare, walks>>

\* make_voting_ensembles: "the check below fails without this"
increment_cal ==
    /\ apportion.pc = "increment"
    /\ apportion' = [apportion EXCEPT
                       !.num_districts[2] = increment(apportion.num_districts[2]),
                       !.pc = "check"]
    /\ UNCHANGED <<pipeline, steps, exec, tree_part, prepare, walks>>

\* "make sure no total seats are lost or gained due to rounding"
check_seats ==
    /\ apportion.pc = "check"
    /\ apportion' = [apportion EXCEPT
                       !.pc = IF seats_match(apportion.num_districts)
                              THEN "partitions" ELSE "raised"]
    /\ UNCHANGED <<pipeline, steps, exec, tree_part, prepare, walks>>

\* "Initialize partitions"
initial_partitions ==
    /\ apportion.pc = "partitions"
    /\ apportion' = [apportion EXCEPT !.partitions = TRUE, !.pc = "walks"]
    /\ UNCHANGED <<pipeline, steps, exec, tree_part, prepare, walks>>

\* "Prepare random walks", "Do random walks"
random_walks ==
    /\ apportion.pc = "walks"
    /\ apportion' = [apportion EXCEPT !.chain_steps = TRUE, !.pc = "dump"]
    /\ UNCHANGED <<pipeline, steps, exec, tree_part, prepare, walks>>

\* "Pickle ensembles"
dump_ensembles ==
    /\ apportion.pc = "dump"
    /\ apportion' = [apportion EXCEPT !.ensembles = TRUE, !.pc = "returned"]
    /\ UNCHANGED <<pipeline, steps, exec, tree_part, prepare, walks>>

NextApportion ==
    \/ round_districts
    \/ increment_cal
    \/ check_seats
    \/ initial_partitions
    \/ random_walks
    \/ dump_ensembles

SpecApportion == InitApportion /\ [][NextApportion]_vars

(***************************************************************************)
(* The chains of one region, with both seeds.  __random_partitions builds  *)
(* part_1 and part_2 of the region, the constraint of the region is built  *)
(* from part_1, and both chains are built with that constraint and walked  *)
(* one after the other.  prepare holds                                     *)
(*   region       the region                                               *)
(*   part         part_1, part_2, as far as built                          *)
(*   constraint   the constraint of the region, once built                 *)
(*   rw           rw_1, rw_2, once built                                   *)
(* A candidate that fails the constraint leaves a chain as it is, so only  *)
(* the steps that accept a candidate are steps here.                       *)
(***************************************************************************)
\* seeds=[0, 1] of a region
region_seeds == <<0, 1>>

InitPrepare ==
    /\ pipeline \in Pipelines
    /\ steps \in 1..MaxRegionSteps
    /\ exec = << >>
    /\ tree_part = idle
    /\ apportion = idle
    /\ walks = idle
    /\ \E region \in { Regions[r] : r \in 1..Len(Regions) } :
          prepare = [ pc |-> "partitions",
                      region |-> region,
                      part |-> << >>,
                      constraint |-> << >>,
                      rw |-> << >> ]

\* __random_partitions(graph, num_districts, idealpop, ..., seeds=[0, 1])
region_partitions ==
    /\ prepare.pc = "partitions"
    /\ \E plan \in random_partition_plans(pipeline, prepare.region) :
          prepare' = [prepare EXCEPT
                        !.part = Append(prepare.part,
                                        Partition(graph_edges(prepare.region), plan,
                                                  my_updaters(pipeline))),
                        !.pc = IF Len(prepare.part) + 1 = Len(region_seeds)
                               THEN "constraint" ELSE "partitions"]
    /\ UNCHANGED <<pipeline, steps, exec, tree_part, apportion, walks>>

\* "define population constraints": from the partition of the first seed
region_constraint ==
    /\ prepare.pc = "constraint"
    /\ prepare' = [prepare EXCEPT
                     !.constraint = within_percent_of_ideal_population(
                                        prepare.part[1], pop_tolerance, pop_key(pipeline)),
                     !.pc = "chains"]
    /\ UNCHANGED <<pipeline, steps, exec, tree_part, apportion, walks>>

\* "initialize random walks": MarkovChain raises ValueError on an initial
\* state that fails the constraint
region_chains ==
    /\ prepare.pc = "chains"
    /\ LET built == [ j \in 1..Len(prepare.part) |->
                        markov_chain(prepare.constraint, prepare.part[j], steps) ]
       IN prepare' = [prepare EXCEPT
                        !.rw = IF \A j \in 1..Len(built) : chain_valid(built[j], prepare.part[j])
                               THEN built ELSE << >>,
                        !.pc = IF \A j \in 1..Len(built) : chain_valid(built[j], prepare.part[j])
                               THEN "walk" ELSE "raised"]
    /\ UNCHANGED <<pipeline, steps, exec, tree_part, apportion, walks>>

\* the index of the chain that is walked: the first one that has states to yield
walked(rw) ==
    CHOOSE j \in 1..Len(rw) :
        /\ rw[j].counter < rw[j].total_steps
        /\ \A i \in 1..(j - 1) : rw[i].counter >= rw[i].total_steps

\* `for part in rw`: the chain yields its initial state, then accepted candidates
region_walks ==
    /\ prepare.pc = "walk"
    /\ \E j \in 1..Len(prepare.rw) : prepare.rw[j].counter < prepare.rw[j].total_steps
    /\ LET j == walked(prepare.rw)
           chain == prepare.rw[j]
       IN IF chain.counter = 0
          THEN prepare' = [prepare EXCEPT !.rw[j].counter = 1]
          ELSE \E cand \in proposal(pipeline, prepare.region, chain.state) :
                  /\ chain_valid(chain, cand)
                  /\ prepare' = [prepare EXCEPT
                                   !.rw[j].state = IF always_accept(cand)
                                                   THEN cand ELSE chain.state,
                                   !.rw[j].counter = chain.counter + 1]
    /\ UNCHANGED <<pipeline, steps, exec, tree_part, apportion, walks>>

\* the walks of the region have returned
region_walked ==
    /\ prepare.pc = "walk"
    /\ \A j \in 1..Len(prepare.rw) : prepare.rw[j].counter >= prepare.rw[j].total_steps
    /\ prepare' = [prepare EXCEPT !.pc = "returned"]
    /\ UNCHANGED <<pipeline, steps, exec, tree_part, apportion, walks>>

NextPrepare ==
    \/ region_partitions
    \/ region_constraint
    \/ region_chains
    \/ region_walks
    \/ region_walked

SpecPrepare == InitPrepare /\ [][NextPrepare]_vars

(***************************************************************************)
(* The Cal 3 plan of one seed: the partitions of NorCal, Cal and SoCal,    *)
(* their chains, the three walks one after the other, and the sums of the  *)
(* three ensembles.  The chain objects rw_norcal_1, rw_cal_1, rw_socal_1   *)
(* stay in scope after their walks, with the state they yielded last.      *)
(* walks holds                                                             *)
(*   part   part_norcal_1, part_cal_1, part_socal_1, as far as built       *)
(*   rw     rw_norcal_1, rw_cal_1, rw_socal_1, once built                  *)
(*   k      the chain that is walked                                       *)
(*   ens    the lists __walk has returned or is filling, by chain          *)
(*   cal3   the Cal 3 lists, once aggregated                               *)
(* A candidate that fails the constraint leaves a chain as it is, so only  *)
(* the steps that accept a candidate are steps here.                       *)
(***************************************************************************)
InitWalks ==
    /\ pipeline \in Pipelines
    /\ steps \in 1..MaxRegionSteps
    /\ exec = << >>
    /\ tree_part = idle
    /\ apportion = idle
    /\ prepare = idle
    /\ walks = [ pc |-> "partitions",
                 part |-> << >>,
                 rw |-> << >>,
                 k |-> 1,
                 ens |-> [r \in 1..Len(Regions) |-> empty_ens(pipeline)],
                 cal3 |-> empty_ens(pipeline) ]

\* part_norcal_1, part_cal_1, part_socal_1 = __random_partitions(...)
cal3_partitions ==
    /\ walks.pc = "partitions"
    /\ LET region == Regions[Len(walks.part) + 1]
       IN \E plan \in random_partition_plans(pipeline, region) :
             walks' = [walks EXCEPT
                         !.part = Append(walks.part,
                                         Partition(graph_edges(region), plan,
                                                   my_updaters(pipeline))),
                         !.pc = IF Len(walks.part) + 1 = Len(Regions)
                                THEN "chains" ELSE "partitions"]
    /\ UNCHANGED <<pipeline, steps, exec, tree_part, apportion, prepare>>

\* "define population constraints" and "initialize random walks"
cal3_chains ==
    /\ walks.pc = "chains"
    /\ LET built == [ r \in 1..Len(Regions) |->
                        markov_chain(within_percent_of_ideal_population(
                                         walks.part[r], pop_tolerance, pop_key(pipeline)),
                                     walks.part[r], steps) ]
       IN IF \A r \in 1..Len(Regions) : chain_valid(built[r], walks.part[r])
          THEN walks' = [walks EXCEPT !.rw = built, !.part = << >>, !.pc = "walk"]
          ELSE walks' = [walks EXCEPT !.part = << >>, !.pc = "raised"]
    /\ UNCHANGED <<pipeline, steps, exec, tree_part, apportion, prepare>>

\* one iteration of `for part in rw` of the chain that is walked
cal3_walk ==
    /\ walks.pc = "walk"
    /\ walks.rw[walks.k].counter < walks.rw[walks.k].total_steps
    /\ LET chain == walks.rw[walks.k]
           region == Regions[walks.k]
           yield(part) ==
               [walks EXCEPT !.rw[walks.k].state = part,
                             !.rw[walks.k].counter = chain.counter + 1,
                             !.ens[walks.k] = walk_append(pipeline, walks.ens[walks.k], part,
                                                          num_districts(region))]
       IN IF chain.counter = 0
          THEN walks' = yield(chain.state)
          ELSE \E cand \in proposal(pipeline, region, chain.state) :
                  /\ chain_valid(chain, cand)
                  /\ walks' = yield(IF always_accept(cand) THEN cand ELSE chain.state)
    /\ UNCHANGED <<pipeline, steps, exec, tree_part, apportion, prepare>>

\* __walk returns; the next chain is walked
cal3_walk_return ==
    /\ walks.pc = "walk"
    /\ walks.rw[walks.k].counter >= walks.rw[walks.k].total_steps
    /\ walks' = IF walks.k = Len(Regions)
                THEN [walks EXCEPT !.pc = "aggregate"]
                ELSE [walks EXCEPT !.k = walks.k + 1]
    /\ UNCHANGED <<pipeline, steps, exec, tree_part, apportion, prepare>>

\* "Aggregate NorCal, Cal, SoCal ensembles into Cal 3 ensembles"
cal3_aggregate ==
    /\ walks.pc = "aggregate"
    /\ walks' = [walks EXCEPT
                   !.cal3 = aggregate(pipeline, walks.ens[1], walks.ens[2], walks.ens[3]),
                   !.pc = "done"]
    /\ UNCHANGED <<pipeline, steps, exec, tree_part, apportion, prepare>>

NextWalks ==
    \/ cal3_partitions
    \/ cal3_chains
    \/ cal3_walk
    \/ cal3_walk_return
    \/ cal3_aggregate

SpecWalks == InitWalks /\ [][NextWalks]_vars

(***************************************************************************)
(* The properties.  In a state of an execution that is walking, rw[j] is   *)
(* the chain chains[k + j - 1]: rw[1] is being walked and has yielded its  *)
(* state when its counter is positive, the others are built and will yield *)
(* their state first.                                                      *)
(***************************************************************************)
region_of(s, j) == chains[s.k + j - 1].region

(***************************************************************************)
(* C1: every state of every chain __markov_chain has built, the initial    *)
(* state included, has the primary total of every district                 *)
(* (district_totpop, district_totvotes) within pop_tolerance = 0.02 of     *)
(* total / K: (total/K) * 0.98 <= district total <= (total/K) * 1.02,      *)
(* where total is the region's sum of the primary attribute and K its      *)
(* number of districts.                                                    *)
(***************************************************************************)
C1_within_tolerance ==
    \A e \in Execs :
        Walking(exec[e]) =>
            \A j \in 1..Len(exec[e].rw) :
                LET tally == exec[e].rw[j].state.tally[pop_key(pipeline)]
                    total == totpop(pipeline, region_of(exec[e], j))
                    K == num_districts(region_of(exec[e], j))
                IN \A d \in DOMAIN tally :
                       /\ total * 98 <= tally[d] * K * 100
                       /\ tally[d] * K * 100 <= total * 102

\* a three-district chain has yielded a state after a step, with a district
\* on the upper end of the band and one on the lower end
C1_witness ==
    /\ Walking(exec[1])
    /\ num_districts(region_of(exec[1], 1)) = 3
    /\ exec[1].rw[1].counter >= 2
    /\ LET tally == exec[1].rw[1].state.tally[pop_key(pipeline)]
           total == totpop(pipeline, region_of(exec[1], 1))
       IN /\ \E d \in DOMAIN tally : tally[d] * 3 * 100 = total * 102
          /\ \E d \in DOMAIN tally : tally[d] * 3 * 100 = total * 98

(***************************************************************************)
(* C2: the region graphs being connected, every district of every          *)
(* partition __random_partitions returns, and of every state of a chain    *)
(* after any number of recombination steps, induces a connected subgraph   *)
(* of its region's graph.                                                  *)
(***************************************************************************)
districts_connected(partition, region) ==
    \A d \in Districts(partition.assignment) :
        /\ PartNodes(partition.assignment, d) # {}
        /\ Connected(PartNodes(partition.assignment, d), graph_edges(region))

C2_districts_connected ==
    /\ \A r \in 1..Len(Regions) :
           Connected(graph_nodes(Regions[r]), graph_edges(Regions[r]))
    /\ \A e \in Execs :
           /\ \A j \in 1..Len(exec[e].part) :
                  districts_connected(exec[e].part[j], chains[j].region)
           /\ Walking(exec[e]) =>
                  \A j \in 1..Len(exec[e].rw) :
                      districts_connected(exec[e].rw[j].state, region_of(exec[e], j))

\* the three-district chain has taken two steps and holds a state with a
\* district of three nodes
C2_witness ==
    /\ Walking(exec[2])
    /\ exec[2].rw[1].counter >= 3
    /\ LET state == exec[2].rw[1].state
       IN /\ Cardinality(Districts(state.assignment)) = 3
          /\ \E d \in Districts(state.assignment) :
                 Cardinality(PartNodes(state.assignment, d)) >= 2

(***************************************************************************)
(* C3: in every state of a chain, after any number of proposals applied,   *)
(* every Tally updater (district_totpop, district_hispanic_latino_pop;     *)
(* district_totvotes, district_democrat_votes, district_republican_votes)  *)
(* holds, for every district, the sum of its node attribute over the nodes *)
(* now assigned to the district, and cut_edges is the set of the edges of  *)
(* the region's graph whose endpoints have different labels.               *)
(***************************************************************************)
updaters_exact(partition, region) ==
    /\ \A alias \in DOMAIN my_updaters(pipeline) :
           /\ DOMAIN partition.tally[alias] = Districts(partition.assignment)
           /\ \A d \in Districts(partition.assignment) :
                  partition.tally[alias][d] =
                      SumOver(NodeAttr(my_updaters(pipeline)[alias]),
                              { n \in graph_nodes(region) : partition.assignment[n] = d })
    /\ partition.cut_edges =
           { e \in graph_edges(region) :
               partition.assignment[e[1]] # partition.assignment[e[2]] }

C3_updaters_exact ==
    \A e \in Execs :
        Walking(exec[e]) =>
            \A j \in 1..Len(exec[e].rw) :
                updaters_exact(exec[e].rw[j].state, region_of(exec[e], j))

\* a chain whose second state has another number of cut edges than its first
\* has yielded a third state
C3_witness ==
    /\ Walking(exec[1])
    /\ exec[1].rw[1].counter >= 3
    /\ LET cutedges == exec[1].ens[exec[1].k].cutedges
       IN cutedges[1] # cutedges[2]

statistics(partition, region) ==
    walk_append(pipeline, empty_ens(pipeline), partition, num_districts(region))

\* the length the lists of chain j have in execution state s
lists_length(s, j) ==
    IF s.pc \in {"aggregate", "done"} THEN steps
    ELSE IF ~Walking(s) \/ j > s.k THEN 0
    ELSE IF j < s.k THEN steps
    ELSE s.rw[1].counter

C5_lengths ==
    \A e \in Execs : \A j \in 1..Len(chains) :
        \A f \in DOMAIN exec[e].ens[j] :
            Len(exec[e].ens[j][f]) = lists_length(exec[e], j)

IsPrefix(a, b) ==
    /\ Len(a) <= Len(b)
    /\ \A i \in 1..Len(a) : a[i] = b[i]

C5_appends ==
    \A e \in Execs :
        /\ \A j \in 1..Len(chains) : \A f \in DOMAIN exec[e].ens[j] :
               /\ IsPrefix(exec[e].ens[j][f], exec'[e].ens[j][f])
               /\ Len(exec'[e].ens[j][f]) <= Len(exec[e].ens[j][f]) + 1
        \* the chains are built on the partitions __random_partitions returned
        /\ (AtChains(exec[e]) /\ Walking(exec'[e])) =>
               \A j \in 1..Len(chains) :
                   /\ exec'[e].rw[j].state = exec[e].part[j]
                   /\ exec'[e].rw[j].counter = 0
        \* a chain keeps that partition until its walk begins
        /\ (Walking(exec[e]) /\ Walking(exec'[e])) =>
               \A j \in 2..Len(exec[e].rw) :
                   exec'[e].rw[j - (exec'[e].k - exec[e].k)] = exec[e].rw[j]
        \* the element a yielded state appends is the statistics of that state
        /\ (Walking(exec[e]) /\ Walking(exec'[e]) /\ exec'[e].k = exec[e].k
              /\ exec'[e].rw[1].counter # exec[e].rw[1].counter) =>
               LET k == exec[e].k
                   yielded == exec'[e].rw[1].state
                   stat == statistics(yielded, chains[k].region)
               IN /\ exec'[e].rw[1].counter = exec[e].rw[1].counter + 1
                  /\ exec[e].rw[1].counter = 0 => yielded = exec[e].rw[1].state
                  /\ \A f \in DOMAIN stat :
                         exec'[e].ens[k][f] = exec[e].ens[k][f] \o stat[f]

C5_walk_sequences == [](C5_lengths) /\ [][C5_appends]_vars

\* a walk of three steps has returned lists whose elements differ
C5_witness ==
    /\ steps = 3
    /\ Walking(exec[1])
    /\ exec[1].k = 3
    /\ exec[1].rw[1].counter = 3
    /\ \E f \in DOMAIN exec[1].ens[2] :
           /\ Len(exec[1].ens[2][f]) = 3
           /\ exec[1].ens[2][f][1] # exec[1].ens[2][f][2]
           /\ exec[1].ens[2][f][2] # exec[1].ens[2][f][3]

(***************************************************************************)
(* C6: the count __walk appends to majmin_ens for a partition is the       *)
(* number of districts i in 0..K-1 whose district_hispanic_latino_pop is   *)
(* strictly more than half of its district_totpop, each such district      *)
(* adding one and every other district nothing: a district with 50 of 100  *)
(* is not counted, a district with 51 of 100 is.                           *)
(***************************************************************************)
C6_majority_count ==
    \A e \in Execs :
        (pipeline = "demographic" /\ Walking(exec[e]) /\ exec[e].rw[1].counter >= 1) =>
            LET part == exec[e].rw[1].state
                K == num_districts(chains[exec[e].k].region)
                subgroup == part.tally.district_hispanic_latino_pop
                primary == part.tally.district_totpop
                majmin == exec[e].ens[exec[e].k].majmin
            IN /\ majmin[Len(majmin)] =
                      Cardinality({ i \in 0..(K - 1) : 2 * subgroup[i] > primary[i] })
               /\ \A i \in 0..(K - 1) :
                      majmin_count(part, i + 1) - majmin_count(part, i) =
                          IF 2 * subgroup[i] > primary[i] THEN 1 ELSE 0
               /\ \A i \in 0..(K - 1) :
                      /\ (subgroup[i] = 50 /\ primary[i] = 100) =>
                             majmin_count(part, i + 1) = majmin_count(part, i)
                      /\ (subgroup[i] = 51 /\ primary[i] = 100) =>
                             majmin_count(part, i + 1) = majmin_count(part, i) + 1

\* a yielded partition with a district at 50 of 100 and a district at 51 of 100
C6_witness ==
    /\ pipeline = "demographic"
    /\ Walking(exec[1])
    /\ exec[1].rw[1].counter >= 1
    /\ LET part == exec[1].rw[1].state
           subgroup == part.tally.district_hispanic_latino_pop
           primary == part.tally.district_totpop
       IN /\ \E i \in DOMAIN primary : subgroup[i] = 50 /\ primary[i] = 100
          /\ \E i \in DOMAIN primary : subgroup[i] = 51 /\ primary[i] = 100
          /\ exec[1].ens[exec[1].k].majmin[1] = 1

(***************************************************************************)
(* What district i of a yielded partition adds to the accumulators of      *)
(* make_voting_ensembles.__walk: the accumulators after the district minus *)
(* the accumulators before it.                                             *)
(***************************************************************************)
added(part, i) ==
    LET before == votes_loop(part, i)
        after == votes_loop(part, i + 1)
    IN [ seats |-> after.seats - before.seats,
         wasted_republican |-> QuotSub(after.wasted_republican, before.wasted_republican),
         wasted_democrat |-> QuotSub(after.wasted_democrat, before.wasted_democrat),
         plan_totvotes |-> after.plan_totvotes - before.plan_totvotes ]

\* the quotient q is the number n / 2
IsHalves(q, n) == q.num * 2 = n * q.den

\* the yielded partitions of the voting pipeline
yielded_voting(e) ==
    pipeline = "voting" /\ Walking(exec[e]) /\ exec[e].rw[1].counter >= 1

(***************************************************************************)
(* C7: a district of cast total T in which a category has more than half   *)
(* of T adds (the winner's votes - T/2) to the winner's wasted votes and   *)
(* all of the loser's votes to the loser's wasted votes; 60 against 40 of  *)
(* T = 100 adds 10 for the winner and 40 for the loser.  The district adds *)
(* a Republican seat exactly when the Republican votes are more than half  *)
(* of T, and the element appended to republican_seats_ens is the number of *)
(* such districts.                                                         *)
(***************************************************************************)
C7_wasted_votes ==
    \A e \in Execs :
        yielded_voting(e) =>
            LET part == exec[e].rw[1].state
                K == num_districts(chains[exec[e].k].region)
                T == part.tally.district_totvotes
                rep == part.tally.district_republican_votes
                dem == part.tally.district_democrat_votes
                seats == exec[e].ens[exec[e].k].republican_seats
            IN /\ seats[Len(seats)] = Cardinality({ i \in 0..(K - 1) : 2 * rep[i] > T[i] })
               /\ \A i \in 0..(K - 1) :
                      LET a == added(part, i)
                      IN /\ a.seats = IF 2 * rep[i] > T[i] THEN 1 ELSE 0
                         /\ 2 * rep[i] > T[i] =>
                                /\ IsHalves(a.wasted_republican, 2 * rep[i] - T[i])
                                /\ IsHalves(a.wasted_democrat, 2 * dem[i])
                         /\ 2 * dem[i] > T[i] =>
                                /\ IsHalves(a.wasted_democrat, 2 * dem[i] - T[i])
                                /\ IsHalves(a.wasted_republican, 2 * rep[i])
                         /\ (rep[i] = 60 /\ dem[i] = 40 /\ T[i] = 100) =>
                                /\ a.wasted_republican = [num |-> 10, den |-> 1]
                                /\ a.wasted_democrat = [num |-> 40, den |-> 1]
                         /\ (dem[i] = 60 /\ rep[i] = 40 /\ T[i] = 100) =>
                                /\ a.wasted_democrat = [num |-> 10, den |-> 1]
                                /\ a.wasted_republican = [num |-> 40, den |-> 1]

\* a yielded partition with a district won 60 to 40 of 100 by the Democratic
\* category, after a walk that met a district won 60 to 40 by the Republican one
C7_witness ==
    /\ yielded_voting(1)
    /\ exec[1].k = 2
    /\ exec[1].ens[1].republican_seats[1] = 1
    /\ LET part == exec[1].rw[1].state
       IN \E i \in DOMAIN part.tally.district_totvotes :
              /\ part.tally.district_democrat_votes[i] = 60
              /\ part.tally.district_republican_votes[i] = 40
              /\ part.tally.district_totvotes[i] = 100

(***************************************************************************)
(* C8: the element appended to efficiency_gap_ens for a partition is       *)
(* (the wasted Democratic votes of all districts - the wasted Republican   *)
(* votes of all districts) / (the votes cast in all districts), and it is  *)
(* positive exactly when the Democratic category wastes more votes than    *)
(* the Republican one.                                                     *)
(***************************************************************************)
C8_efficiency_gap ==
    \A e \in Execs :
        yielded_voting(e) =>
            LET part == exec[e].rw[1].state
                K == num_districts(chains[exec[e].k].region)
                acc == votes_loop(part, K)
                wd == acc.wasted_democrat
                wr == acc.wasted_republican
                cast == SumValues(part.tally.district_totvotes, 0..(K - 1))
                gaps == exec[e].ens[exec[e].k].efficiency_gap
                gap == gaps[Len(gaps)]
            IN /\ cast = SumOver(total_votes, graph_nodes(chains[exec[e].k].region))
               /\ gap.den > 0
               \* gap = (wd - wr) / cast
               /\ gap.num * wd.den * wr.den * cast
                      = (wd.num * wr.den - wr.num * wd.den) * gap.den
               /\ gap.num > 0 <=> wd.num * wr.den > wr.num * wd.den
               /\ gap.num < 0 <=> wd.num * wr.den < wr.num * wd.den

\* a walk that recorded a positive gap is over and the next one has recorded
\* a negative gap
C8_witness ==
    /\ yielded_voting(2)
    /\ exec[2].k = 2
    /\ exec[2].ens[1].efficiency_gap[1].num > 0
    /\ LET gaps == exec[2].ens[2].efficiency_gap
       IN gaps[Len(gaps)].num < 0

(***************************************************************************)
(* C9: a district in which neither category has more than half of the      *)
(* cast total (a tie, or votes of a third category keeping both at or      *)
(* below half) adds nothing to wasted_democrat, nothing to                 *)
(* wasted_republican and no seat; its cast total is added to               *)
(* plan_totvotes, the divisor of the gap, like that of any district.       *)
(***************************************************************************)
C9_nobody_wins ==
    \A e \in Execs :
        yielded_voting(e) =>
            LET part == exec[e].rw[1].state
                K == num_districts(chains[exec[e].k].region)
                T == part.tally.district_totvotes
                rep == part.tally.district_republican_votes
                dem == part.tally.district_democrat_votes
            IN \A i \in 0..(K - 1) :
                   /\ added(part, i).plan_totvotes = T[i]
                   /\ (2 * rep[i] <= T[i] /\ 2 * dem[i] <= T[i]) =>
                          /\ added(part, i).seats = 0
                          /\ added(part, i).wasted_democrat.num = 0
                          /\ added(part, i).wasted_republican.num = 0

\* a yielded partition with a district that votes of a third category leave
\* without winner, after a walk whose plans had a tied district
C9_witness ==
    /\ yielded_voting(1)
    /\ exec[1].k = 2
    /\ exec[1].ens[1].efficiency_gap[1] = [num |-> 3, den |-> 20]
    /\ LET part == exec[1].rw[1].state
           T == part.tally.district_totvotes
           rep == part.tally.district_republican_votes
           dem == part.tally.district_democrat_votes
       IN \E i \in DOMAIN T :
              /\ 2 * rep[i] < T[i]
              /\ 2 * dem[i] < T[i]
              /\ rep[i] + dem[i] < T[i]

(***************************************************************************)
(* C10: for every statistic and every seed, the Cal 3 list is the sum by   *)
(* step index of the NorCal, Cal and SoCal lists of that seed: the three   *)
(* chains having run for the same n = steps, it has n elements and its     *)
(* i-th element is norcal[i] + cal[i] + socal[i].                          *)
(***************************************************************************)
\* the quotient q is the sum of the quotients a, b and c
IsSum(q, a, b, c) ==
    /\ q.den > 0
    /\ QuotSub(QuotSub(q, a), b) = c

C10_cal3_sums ==
    \A e \in Execs :
        exec[e].pc = "done" =>
            \A slot \in 1..Len(seeds) :
                LET norcal == exec[e].ens[chain_of(1, slot)]
                    cal == exec[e].ens[chain_of(2, slot)]
                    socal == exec[e].ens[chain_of(3, slot)]
                    cal3 == exec[e].cal3[slot]
                IN \A f \in DOMAIN cal3 :
                       /\ Len(norcal[f]) = steps
                       /\ Len(cal[f]) = steps
                       /\ Len(socal[f]) = steps
                       /\ Len(cal3[f]) = steps
                       /\ \A i \in 1..steps :
                              IF f = "efficiency_gap"
                              THEN IsSum(cal3[f][i], norcal[f][i], cal[f][i], socal[f][i])
                              ELSE cal3[f][i] = norcal[f][i] + cal[f][i] + socal[f][i]

\* the voting pipeline is through, with Cal 3 lists of three elements in which
\* the cut edges, the seats and the gaps all vary
C10_witness ==
    /\ pipeline = "voting"
    /\ steps = 3
    /\ exec[1].pc = "done"
    /\ LET cal3 == exec[1].cal3[1]
       IN /\ cal3.cutedges[1] # cal3.cutedges[3]
          /\ cal3.republican_seats[1] # cal3.republican_seats[2]
          /\ cal3.efficiency_gap[2] # cal3.efficiency_gap[3]

(***************************************************************************)
(* The call of the scenario: every node has population 10, two parts, the  *)
(* ideal population is 20 and the tolerance 0.5; the call has returned.    *)
(***************************************************************************)
cycle_returned ==
    /\ tree_part.pc = "returned"
    /\ tree_part.pops = <<10, 10, 10, 10>>
    /\ tree_part.epsilon = [num |-> 1, den |-> 2]

(***************************************************************************)
(* C11 as stated: on the cycle of four nodes of population 10, with two    *)
(* parts and tolerance 0.5, every partition recursive_tree_part returns    *)
(* has two contiguous districts of two nodes and population 20 each.       *)
(***************************************************************************)
C11_two_nodes_each ==
    cycle_returned =>
        \A d \in {0, 1} :
            LET nodes == PartNodes(tree_part.flips, d)
            IN /\ Cardinality(nodes) = 2
               /\ Connected(nodes, cycle_edges)
               /\ PopOf(tree_part.pops, nodes) = 20

(***************************************************************************)
(* C11 amended: on that input every partition recursive_tree_part returns  *)
(* labels every node 0 or 1, and its two districts are contiguous, not     *)
(* empty and of a population from 10 to 30: two nodes and 20 each, or one  *)
(* node with 10 and three nodes with 30.                                   *)
(***************************************************************************)
C11_within_half ==
    cycle_returned =>
        /\ DOMAIN tree_part.flips = cycle_nodes
        /\ \A d \in {0, 1} :
              LET nodes == PartNodes(tree_part.flips, d)
              IN /\ nodes # {}
                 /\ Connected(nodes, cycle_edges)
                 /\ PopOf(tree_part.pops, nodes) \in 10..30
                 /\ PopOf(tree_part.pops, nodes) = 10 * Cardinality(nodes)

\* a returned partition of the scenario with a district of one node
C11_witness ==
    /\ cycle_returned
    /\ \E d \in {0, 1} : Cardinality(PartNodes(tree_part.flips, d)) = 1

(***************************************************************************)
(* C12: a chain step changes the assignment within two districts that      *)
(* shared a cut edge in the state before it.  For every step a walk takes  *)
(* there is an edge of the region whose ends had different labels a and b  *)
(* in the state before the step such that every node of another district   *)
(* keeps its label, the nodes of a and b together are the same nodes as    *)
(* before, and both a and b still have nodes.                              *)
(***************************************************************************)
recombined(edges, old, new) ==
    /\ DOMAIN new = DOMAIN old
    /\ \E edge \in { e \in subgraph_edges(edges, DOMAIN old) : old[e[1]] # old[e[2]] } :
          LET a == old[edge[1]]
              b == old[edge[2]]
              merged == PartNodes(old, a) \cup PartNodes(old, b)
          IN /\ \A n \in (DOMAIN old) \ merged : new[n] = old[n]
             /\ PartNodes(new, a) \cup PartNodes(new, b) = merged
             /\ PartNodes(new, a) # {}
             /\ PartNodes(new, b) # {}

C12_steps ==
    \A step \in { <<exec[e], exec'[e]>> : e \in Execs } :
        ( /\ AtStep(step[1])
          /\ step[2].rw[1].counter = step[1].rw[1].counter + 1 )
        => recombined(graph_edges(region_of(step[1], 1)),
                      step[1].rw[1].state.assignment, step[2].rw[1].state.assignment)

C12_two_districts == [][C12_steps]_vars

\* a chain of three districts has taken a step that changed its assignment,
\* as two statistics in a row differ
C12_witness ==
    \E e \in Execs :
        /\ Walking(exec[e])
        /\ exec[e].rw[1].counter >= 2
        /\ region_of(exec[e], 1) = "socal"
        /\ \E f \in DOMAIN exec[e].ens[exec[e].k] :
              \E j \in 1..(exec[e].rw[1].counter - 1) :
                  exec[e].ens[exec[e].k][f][j] # exec[e].ens[exec[e].k][f][j + 1]

(***************************************************************************)
(* C13: a chain that has steps left draws a candidate from its current     *)
(* state.  A candidate with a district total outside the band is           *)
(* discarded: the chain's state, its counter and the lists stay as they    *)
(* are and the chain draws again from the same state.  A candidate within  *)
(* the band is always accepted: it becomes the chain's state and the       *)
(* counter grows by one.  No step does anything else.                      *)
(***************************************************************************)
in_band(partition, region) ==
    LET tally == partition.tally[pop_key(pipeline)]
        total == totpop(pipeline, region)
        K == num_districts(region)
    IN \A d \in DOMAIN tally :
           /\ total * 98 <= tally[d] * K * 100
           /\ tally[d] * K * 100 <= total * 102

discarded(s, t) ==
    /\ t.rw = s.rw
    /\ t.ens = s.ens
    /\ t.k = s.k
    /\ AtStep(t)

C13_candidates ==
    \A s \in { exec[e] : e \in Execs } :
        AtStep(s) =>
            LET succ == StepSucc(s)
            IN \A cand \in proposal(pipeline, region_of(s, 1), s.rw[1].state) :
                   IF in_band(cand, region_of(s, 1))
                   THEN \E t \in succ :
                            /\ t.rw[1].state = cand
                            /\ t.rw[1].counter = s.rw[1].counter + 1
                   ELSE s.rejects < MaxRejects =>
                            \E t \in succ : discarded(s, t) /\ t.rejects = s.rejects + 1

C13_steps ==
    \A step \in { <<exec[e], exec'[e]>> : e \in Execs } :
        AtStep(step[1]) =>
            \/ discarded(step[1], step[2])
            \/ /\ step[2].rw[1].counter = step[1].rw[1].counter + 1
               /\ in_band(step[2].rw[1].state, region_of(step[1], 1))

C13_discard_or_accept == [](C13_candidates) /\ [][C13_steps]_vars

\* a candidate has been discarded and the chain is about to draw again from a
\* state that has candidates of both kinds
C13_witness ==
    \E e \in Execs :
        /\ AtStep(exec[e])
        /\ exec[e].rejects > 0
        /\ \E cand \in proposal(pipeline, region_of(exec[e], 1), exec[e].rw[1].state) :
              in_band(cand, region_of(exec[e], 1))
                  /\ cand.assignment # exec[e].rw[1].state.assignment

(***************************************************************************)
(* The program runs on: a step that can be taken is taken.  This is weak   *)
(* fairness of Next, written out: a step of Next can be taken exactly when *)
(* an execution has neither reached the end of the pipeline nor raised,    *)
(* and a step of Spec that changes the state is a step of Next.            *)
(***************************************************************************)
ended == \A e \in Execs : exec[e].pc \in {"done", "raised"}

FairSpec == Spec /\ ([]<><<TRUE>>_vars \/ []<>ended)

(***************************************************************************)
(* C14: every chain ends after exactly `steps` states.  A chain is built   *)
(* with total_steps = steps and never counts more yielded states than      *)
(* that; a walk returns only when its chain has yielded `steps` states,    *)
(* and has then appended `steps` elements to each list; and every walk     *)
(* returns: the pipeline reaches its end, or has stopped when its chains   *)
(* were built.                                                             *)
(***************************************************************************)
C14_counters ==
    \A s \in { exec[e] : e \in Execs } :
        Walking(s) =>
            \A j \in 1..Len(s.rw) :
                /\ s.rw[j].total_steps = steps
                /\ s.rw[j].counter <= steps

C14_returns ==
    \A step \in { <<exec[e], exec'[e]>> : e \in Execs } :
        ( /\ Walking(step[1])
          /\ step[2].pc # "walk" \/ step[2].k # step[1].k )
        => /\ step[1].rw[1].counter = steps
           /\ \A f \in DOMAIN step[2].ens[step[1].k] :
                  Len(step[2].ens[step[1].k][f]) = steps

C15_retry_ceiling ==
    \A e \in Execs :
        exec[e].rejects >= MaxRejects => exec[e].pc = "stalled"

(***************************************************************************)
(* C16: chains share no mutable state, so what a chain yields does not     *)
(* depend on what ran before it.  The draws of a walk are taken from the   *)
(* generator, so this asks that a chain's walk starts with the generator   *)
(* in the state the chain's own seed and the construction of its own       *)
(* initial partition left it in, whatever was built or walked in between.  *)
(***************************************************************************)
C16_independent_chains ==
    \A e \in Execs :
        AtFirst(exec[e]) =>
            exec[e].rng = draw(seed_random(exec[e].rng, seeds[chains[exec[e].k].slot]),
                               num_districts(region_of(exec[e], 1)) - 1)

(***************************************************************************)
(* C17: in every initial partition and in every state of a chain, every    *)
(* node of the region has a label, the labels in use are exactly           *)
(* 0, ..., K - 1 for the K districts of the region, so that no district is *)
(* empty, and every tally has a value for each of these labels, as         *)
(* part[...][i] for i in range(num_districts) needs.                       *)
(***************************************************************************)
labelled(partition, region) ==
    /\ DOMAIN partition.assignment = graph_nodes(region)
    /\ Districts(partition.assignment) = 0..(num_districts(region) - 1)
    /\ \A d \in 0..(num_districts(region) - 1) : PartNodes(partition.assignment, d) # {}
    /\ \A alias \in DOMAIN partition.tally :
           DOMAIN partition.tally[alias] = 0..(num_districts(region) - 1)

C17_labels ==
    \A s \in { exec[e] : e \in Execs } :
        /\ \A j \in 1..Len(s.part) : labelled(s.part[j], chains[j].region)
        /\ Walking(s) => \A j \in 1..Len(s.rw) : labelled(s.rw[j].state, region_of(s, j))

C17_dense_labels == [](C17_labels)

\* a chain of three districts has taken a step, to a state that has nodes 11
\* and 12 in different districts
C17_witness ==
    \E e \in Execs :
        /\ Walking(exec[e])
        /\ num_districts(region_of(exec[e], 1)) = 3
        /\ exec[e].rw[1].counter >= 2
        /\ exec[e].rw[1].state.assignment[11] # exec[e].rw[1].state.assignment[12]
        /\ labelled(exec[e].rw[1].state, region_of(exec[e], 1))

(***************************************************************************)
(* C18: each element of the Cal 3 efficiency gaps is the efficiency gap of *)
(* the three regional plans taken together: the wasted Democratic votes    *)
(* minus the wasted Republican votes of all their districts, over the      *)
(* votes cast in the three regions.  A region's gap times the votes cast   *)
(* in the region is its wasted Democratic minus its wasted Republican      *)
(* votes.                                                                  *)
(***************************************************************************)
wasted_difference(gap, region) ==
    Quot(gap.num * totpop("voting", region), gap.den)

combined_gap(norcal, cal, socal) ==
    LET wasted == QuotAdd(QuotAdd(wasted_difference(norcal, "norcal"),
                                  wasted_difference(cal, "cal")),
                          wasted_difference(socal, "socal"))
        votes == totpop("voting", "norcal") + totpop("voting", "cal")
                     + totpop("voting", "socal")
    IN Quot(wasted.num, wasted.den * votes)

C18_combined_gap ==
    \A e \in Execs :
        (pipeline = "voting" /\ exec[e].pc = "done") =>
            \A slot \in 1..Len(seeds) :
                \A i \in 1..Len(exec[e].cal3[slot].efficiency_gap) :
                    exec[e].cal3[slot].efficiency_gap[i] =
                        combined_gap(exec[e].ens[chain_of(1, slot)].efficiency_gap[i],
                                     exec[e].ens[chain_of(2, slot)].efficiency_gap[i],
                                     exec[e].ens[chain_of(3, slot)].efficiency_gap[i])

(***************************************************************************)
(* C19: no seat is lost or gained by the apportionment.  In both           *)
(* pipelines, once an initial partition is built, a chain is walked or an  *)
(* ensemble is written, the counts of NorCal, Cal and SoCal sum to 52; and *)
(* when the counts the check sees do not sum to 52 the run has raised      *)
(* after the check, with no partition built, no chain walked and no        *)
(* ensemble written.                                                       *)
(***************************************************************************)
checked == apportion.pc \notin {"idle", "round", "increment", "check"}

C19_seats_sum ==
    /\ (apportion.pc # "idle"
            /\ (apportion.partitions \/ apportion.chain_steps \/ apportion.ensembles))
       => SumSeq(apportion.num_districts) = 52
    /\ (checked /\ SumSeq(apportion.num_districts) # 52)
       => /\ apportion.pc = "raised"
          /\ ~apportion.partitions
          /\ ~apportion.chain_steps
          /\ ~apportion.ensembles

\* the voting pipeline has built its partitions with 52 seats, of which the
\* rounding gave 51
C19_witness ==
    /\ apportion.pc = "walks"
    /\ pipeline = "voting"
    /\ apportion.partitions
    /\ SumSeq(apportion.num_districts) = 52
    /\ SumSeq(rounded_districts(apportion.totpop)) = 51

(***************************************************************************)
(* C20: in make_voting_ensembles the count of Cal is incremented before    *)
(* the check whatever the rounding gave, so the run passes the check       *)
(* exactly when the three rounded counts sum to 51, and raises when they   *)
(* sum to 52 or to anything else.                                          *)
(***************************************************************************)
C20_proceeds_iff_51 ==
    (pipeline = "voting" /\ checked) =>
        /\ apportion.num_districts =
               [rounded_districts(apportion.totpop) EXCEPT ![2] = @ + 1]
        /\ apportion.pc # "raised"
               <=> SumSeq(rounded_districts(apportion.totpop)) = 51

\* the voting pipeline has raised on counts that the rounding gave as 52
C20_witness ==
    /\ pipeline = "voting"
    /\ apportion.pc = "raised"
    /\ SumSeq(rounded_districts(apportion.totpop)) = 52

(***************************************************************************)
(* C21: the constraint of a region is built from the partition of its      *)
(* first seed and used by the chains of both seeds; it is the constraint   *)
(* that the partition of the other seed would give: the same key, the      *)
(* same tolerance and the same ideal value, which is the region's total    *)
(* over its number of districts.  So in every state of a chain, and for    *)
(* every candidate drawn from it, the chain's constraint and the           *)
(* constraint built from the chain's own initial partition agree.          *)
(***************************************************************************)
own_constraint(j) ==
    within_percent_of_ideal_population(prepare.part[j], pop_tolerance, pop_key(pipeline))

C21_same_band ==
    prepare.pc \in {"chains", "walk", "returned", "raised"} =>
        /\ \A j \in 1..Len(prepare.part) :
              /\ own_constraint(j) = prepare.constraint
              /\ prepare.constraint.ideal_population.num * num_districts(prepare.region)
                     = totpop(pipeline, prepare.region)
                           * prepare.constraint.ideal_population.den
        /\ \A j \in 1..Len(prepare.rw) :
              /\ prepare.rw[j].constraints = <<prepare.constraint>>
              /\ \A cand \in {prepare.rw[j].state}
                                 \cup proposal(pipeline, prepare.region, prepare.rw[j].state) :
                     is_valid(prepare.constraint, cand) <=> is_valid(own_constraint(j), cand)

\* the chain of the second seed, started from another partition than the first
\* seed's, has taken a step from a state that has a candidate outside the band
C21_witness ==
    /\ prepare.pc = "walk"
    /\ prepare.part[1].assignment # prepare.part[2].assignment
    /\ prepare.rw[2].counter >= 2
    /\ \E cand \in proposal(pipeline, prepare.region, prepare.rw[2].state) :
           ~is_valid(prepare.constraint, cand)

(***************************************************************************)
(* C22: in every state a chain yields, the total of the primary attribute  *)
(* (district_totpop, district_totvotes) of every district i in             *)
(* range(num_districts) is greater than 0, and in the voting pipeline so   *)
(* is plan_totvotes, the sum __walk takes of them: the denominators of     *)
(* the divisions of __walk are never 0.  The ideal value of every region   *)
(* is positive and pop_tolerance is less than 1, so the lower end of the   *)
(* band is above 0, also for the district that holds the unit nobody is in.*)
(***************************************************************************)
\* the state the chain that is walked has yielded last
yielded(s) == s.rw[1].state

C22_denominators ==
    \A s \in { exec[e] : e \in Execs } :
        (Walking(s) /\ s.rw[1].counter > 0) =>
            LET n == num_districts(chains[s.k].region)
                tally == yielded(s).tally[pop_key(pipeline)]
            IN /\ \A i \in 0..(n - 1) : i \in DOMAIN tally /\ tally[i] > 0
               /\ pipeline = "voting" => votes_loop(yielded(s), n).plan_totvotes > 0

C22_positive_totals == [](C22_denominators)

\* a SoCal chain has yielded a state after a step in which the unit nobody
\* is in shares its district with one other unit only
C22_witness ==
    /\ Walking(exec[1])
    /\ chains[exec[1].k].region = "socal"
    /\ exec[1].rw[1].counter >= 2
    /\ LET part == yielded(exec[1])
       IN /\ NodeAttr(totpop_key(pipeline))[14] = 0
          /\ Cardinality(PartNodes(part.assignment, part.assignment[14])) = 2
          /\ part.tally[pop_key(pipeline)][part.assignment[14]] > 0

(***************************************************************************)
(* C23: an entry of the Cal 3 cut-edge list counts the cut edges inside    *)
(* the graphs of the regions only.  For the plan of the state that the     *)
(* three regional plans form together (a district of the state is a        *)
(* district of one region), the entry is the number of cut edges of that   *)
(* plan in the graph of the state, less the number of edges of that graph  *)
(* that run between two regions; so it is at most the former, and equal to *)
(* it only if no edge runs between two regions.  Stated for the entry a    *)
(* region's list got last, against the state its chain yielded last, and   *)
(* for the last Cal 3 entry against the three chains' last states.         *)
(***************************************************************************)
\* the region a node of the statewide graph lies in
region_index(node) == CHOOSE r \in 1..Len(Regions) : node \in graph_nodes(Regions[r])

\* the edges of the statewide graph that run between two regions
crossing_edges ==
    { e \in graph_california_edges : region_index(e[1]) # region_index(e[2]) }

\* the statewide plan that the regional plans form together
combined_plan(rw) ==
    [ node \in graph_california_nodes |->
        << region_index(node), rw[region_index(node)].state.assignment[node] >> ]

Last(list) == list[Len(list)]

C23_inside_regions ==
    /\ walks.pc \in {"walk", "aggregate", "done"} =>
          \A r \in 1..Len(Regions) :
              walks.rw[r].counter > 0 =>
                  Last(walks.ens[r].cutedges)
                      = Cardinality({ e \in graph_california_edges :
                                        /\ region_index(e[1]) = r
                                        /\ region_index(e[2]) = r
                                        /\ combined_plan(walks.rw)[e[1]]
                                               # combined_plan(walks.rw)[e[2]] })
    /\ walks.pc = "done" =>
          LET entry == Last(walks.cal3.cutedges)
              combined == Cardinality(initialize_cut_edges(graph_california_edges,
                                                           combined_plan(walks.rw)))
          IN /\ Len(walks.cal3.cutedges) = steps
             /\ entry = combined - Cardinality(crossing_edges)
             /\ entry <= combined
             /\ entry = combined => crossing_edges = {}

\* the three walks have taken a step each and are aggregated; the Cal chain
\* has ended on a plan with another number of cut edges than it began with
C23_witness ==
    /\ walks.pc = "done"
    /\ steps >= 2
    /\ walks.ens[2].cutedges[1] # Last(walks.ens[2].cutedges)
    /\ crossing_edges # {}
    /\ Last(walks.cal3.cutedges)
           < Cardinality(initialize_cut_edges(graph_california_edges,
                                              combined_plan(walks.rw)))

====
